---- MODULE Spec2Model ----
(***************************************************************************)
(* Model of app.py: an expense tracker that keeps two CSV files            *)
(* (categories.csv, expenses.csv) and rewrites them on every mutation.     *)
(*                                                                         *)
(* A Python str is a tuple of one-character strings, so that strip(),      *)
(* lower(), int(), str(), float(), strptime() and the comparison used by   *)
(* sorted() are computed and not assumed.  A CSV file is the tuple of its  *)
(* rows (header first), a row is the tuple of its cells.                   *)
(***************************************************************************)
EXTENDS Integers, Sequences, FiniteSets, TLC

\* ------------------------------------------------------------------ bounds
MaxCatId == 3
MaxExpId == 2
MaxLegacyRows == 3

\* ------------------------------------------------------- string literals
sId == <<"i", "d">>
sNome == <<"n", "o", "m", "e">>
sData == <<"d", "a", "t", "a">>
sDescricao == <<"d", "e", "s", "c", "r", "i", "c", "a", "o">>
sValor == <<"v", "a", "l", "o", "r">>
sCategoriaId == <<"c", "a", "t", "e", "g", "o", "r", "i", "a", "_", "i", "d">>
sAnotacao == <<"a", "n", "o", "t", "a", "c", "a", "o">>
sOutros == <<"O", "u", "t", "r", "o", "s">>
sOutrosLower == <<"o", "u", "t", "r", "o", "s">>
sOne == <<"1">>

CATEGORIES_HEADER == <<sId, sNome>>
EXPENSES_HEADER == <<sId, sData, sDescricao, sValor, sCategoriaId, sAnotacao>>

\* ---------------------------------------------------------- str methods
Digits == <<"0", "1", "2", "3", "4", "5", "6", "7", "8", "9">>

IsDigit(c) == \E i \in 1..10 : Digits[i] = c

DigitVal(c) == (CHOOSE i \in 1..10 : Digits[i] = c) - 1

\* ord(c) for the characters that occur in names and identifiers
Ord(c) ==
  CASE c = " " -> 32
    [] c = "_" -> 95
    [] IsDigit(c) -> 48 + DigitVal(c)
    [] c = "A" -> 65
    [] c = "B" -> 66
    [] c = "O" -> 79
    [] c = "a" -> 97
    [] c = "b" -> 98
    [] c = "o" -> 111
    [] c = "r" -> 114
    [] c = "s" -> 115
    [] c = "t" -> 116
    [] c = "u" -> 117
    [] OTHER -> 120

LowerChar(c) ==
  CASE c = "A" -> "a"
    [] c = "B" -> "b"
    [] c = "O" -> "o"
    [] c = "N" -> "n"
    [] c = "I" -> "i"
    [] c = "F" -> "f"
    [] OTHER -> c

RECURSIVE lower(_)
lower(s) == IF s = <<>> THEN <<>> ELSE <<LowerChar(Head(s))>> \o lower(Tail(s))

RECURSIVE lstrip(_)
lstrip(s) == IF s = <<>> THEN s ELSE IF Head(s) = " " THEN lstrip(Tail(s)) ELSE s

RECURSIVE rstrip(_)
rstrip(s) ==
  IF s = <<>> THEN s
  ELSE IF s[Len(s)] = " " THEN rstrip(SubSeq(s, 1, Len(s) - 1)) ELSE s

strip(s) == rstrip(lstrip(s))

\* s < t as Python compares str: lexicographic on code points
RECURSIVE StrLess(_, _)
StrLess(s, t) ==
  IF t = <<>> THEN FALSE
  ELSE IF s = <<>> THEN TRUE
  ELSE IF Ord(Head(s)) < Ord(Head(t)) THEN TRUE
  ELSE IF Ord(Head(s)) > Ord(Head(t)) THEN FALSE
  ELSE StrLess(Tail(s), Tail(t))

\* replace(",", ".")
RECURSIVE replace_comma(_)
replace_comma(s) ==
  IF s = <<>> THEN <<>>
  ELSE <<IF Head(s) = "," THEN "." ELSE Head(s)>> \o replace_comma(Tail(s))

\* str(n) for n >= 0
RECURSIVE str(_)
str(n) == IF n < 10 THEN <<Digits[n + 1]>> ELSE str(n \div 10) \o <<Digits[(n % 10) + 1]>>

AllDigits(s) == s # <<>> /\ \A i \in 1..Len(s) : IsDigit(s[i])

RECURSIVE DigitsVal(_)
DigitsVal(s) == IF s = <<>> THEN 0 ELSE DigitsVal(SubSeq(s, 1, Len(s) - 1)) * 10 + DigitVal(s[Len(s)])

\* int(s): surrounding whitespace and one sign are accepted, anything else
\* raises ValueError
Unsigned(t) == IF t # <<>> /\ Head(t) \in {"+", "-"} THEN Tail(t) ELSE t

IsNegative(t) == t # <<>> /\ Head(t) = "-"

IntOk(s) == AllDigits(Unsigned(strip(s)))

SignedVal(t) == IF IsNegative(t) THEN 0 - DigitsVal(Unsigned(t)) ELSE DigitsVal(Unsigned(t))

int(s) == SignedVal(strip(s))

\* ------------------------------------------------- float() and "{:.2f}"
\* float(s) accepts surrounding whitespace, one sign, then nan / inf /
\* infinity in any case, or decimal digits with at most one point.  (The
\* exponent and underscore forms need characters no input here contains.)
FloatBody(s) == Unsigned(strip(s))

FloatNeg(s) == IsNegative(strip(s))

PointCount(s) == Cardinality({i \in 1..Len(s) : s[i] = "."})

DigitCount(s) == Cardinality({i \in 1..Len(s) : IsDigit(s[i])})

IsDecimal(b) ==
  /\ \A i \in 1..Len(b) : IsDigit(b[i]) \/ b[i] = "."
  /\ PointCount(b) <= 1
  /\ DigitCount(b) >= 1

IsNanWord(b) == lower(b) = <<"n", "a", "n">>

IsInfWord(b) == lower(b) \in {<<"i", "n", "f">>, <<"i", "n", "f", "i", "n", "i", "t", "y">>}

\* float(s) does not raise ValueError
FloatOk(s) == IsDecimal(FloatBody(s)) \/ IsNanWord(FloatBody(s)) \/ IsInfWord(FloatBody(s))

PointPos(b) == IF PointCount(b) = 0 THEN Len(b) + 1 ELSE CHOOSE i \in 1..Len(b) : b[i] = "."

\* the value in hundredths; exact for at most two fractional digits, which
\* is what every amount submitted here has
Cents(b) ==
  LET p == PointPos(b)
      ip == SubSeq(b, 1, p - 1)
      fp == SubSeq(b, p + 1, Len(b)) \o <<"0", "0">>
  IN DigitsVal(ip) * 100 + DigitVal(fp[1]) * 10 + DigitVal(fp[2])

float(s) ==
  LET b == FloatBody(s) IN
  IF IsNanWord(b) THEN [kind |-> "nan", neg |-> FALSE, cents |-> 0]
  ELSE IF IsInfWord(b) THEN [kind |-> "inf", neg |-> FloatNeg(s), cents |-> 0]
  ELSE [kind |-> "num", neg |-> FloatNeg(s), cents |-> Cents(b)]

\* f"{valor:.2f}"
format_2f(v) ==
  IF v.kind = "nan" THEN <<"n", "a", "n">>
  ELSE (IF v.neg THEN <<"-">> ELSE <<>>) \o
       (IF v.kind = "inf" THEN <<"i", "n", "f">>
        ELSE str(v.cents \div 100) \o <<".">> \o
             <<Digits[((v.cents % 100) \div 10) + 1], Digits[(v.cents % 10) + 1]>>)

\* --------------------------------------- strptime / strftime "%Y-%m-%d"
RECURSIVE SplitDash(_)
SplitDash(s) ==
  IF \A i \in 1..Len(s) : s[i] # "-" THEN <<s>>
  ELSE LET p == CHOOSE i \in 1..Len(s) : s[i] = "-" /\ \A j \in 1..(i - 1) : s[j] # "-"
       IN <<SubSeq(s, 1, p - 1)>> \o SplitDash(SubSeq(s, p + 1, Len(s)))

IsLeap(y) == (y % 4 = 0 /\ y % 100 # 0) \/ y % 400 = 0

DaysInMonth(y, m) ==
  IF m = 2 THEN (IF IsLeap(y) THEN 29 ELSE 28)
  ELSE IF m \in {4, 6, 9, 11} THEN 30 ELSE 31

\* %Y is four digits, %m and %d one or two digits in range; the date must
\* exist
StrptimeOk(s) ==
  LET parts == SplitDash(s) IN
  /\ Len(parts) = 3
  /\ AllDigits(parts[1]) /\ Len(parts[1]) = 4 /\ DigitsVal(parts[1]) >= 1
  /\ AllDigits(parts[2]) /\ Len(parts[2]) \in 1..2 /\ DigitsVal(parts[2]) \in 1..12
  /\ AllDigits(parts[3]) /\ Len(parts[3]) \in 1..2
  /\ DigitsVal(parts[3]) \in 1..DaysInMonth(DigitsVal(parts[1]), DigitsVal(parts[2]))

strptime(s) ==
  LET parts == SplitDash(s)
  IN [year |-> DigitsVal(parts[1]), month |-> DigitsVal(parts[2]), day |-> DigitsVal(parts[3])]

Pad2(n) == IF n < 10 THEN <<"0">> \o str(n) ELSE str(n)

Pad4(n) == IF n < 10 THEN <<"0", "0", "0">> \o str(n)
           ELSE IF n < 100 THEN <<"0", "0">> \o str(n)
           ELSE IF n < 1000 THEN <<"0">> \o str(n) ELSE str(n)

strftime(d) == Pad4(d.year) \o <<"-">> \o Pad2(d.month) \o <<"-">> \o Pad2(d.day)

\* ------------------------------------------------------------ csv module
\* csv.DictReader: the cell of a row under a column name, "" when the
\* header has no such column
HasField(header, row, name) == \E i \in 1..Len(header) : header[i] = name /\ i <= Len(row)

Field(header, row, name) ==
  IF HasField(header, row, name)
  THEN row[CHOOSE i \in 1..Len(header) : header[i] = name /\ i <= Len(row)]
  ELSE <<>>

\* rows of a file that have a cell which is not blank
NonBlankRows(file) == SelectSeq(file, LAMBDA row : \E i \in 1..Len(row) : strip(row[i]) # <<>>)

RECURSIVE StripCells(_)
StripCells(row) == IF row = <<>> THEN <<>> ELSE <<strip(Head(row))>> \o StripCells(Tail(row))

\* ---------------------------------------------------------- migration
FRESH_CATEGORIES == <<CATEGORIES_HEADER, <<sOne, sOutros>>>>

FRESH_EXPENSES == <<EXPENSES_HEADER>>

\* names of a legacy file: first cell of every row after the header,
\* stripped, blanks dropped
AppendName(names, name) == IF name = <<>> THEN names ELSE Append(names, name)

RECURSIVE LegacyNames(_)
LegacyNames(rows) ==
  IF rows = <<>> THEN <<>>
  ELSE IF rows[Len(rows)] = <<>> THEN LegacyNames(SubSeq(rows, 1, Len(rows) - 1))
  ELSE AppendName(LegacyNames(SubSeq(rows, 1, Len(rows) - 1)), strip(rows[Len(rows)][1]))

InSeq(x, seq) == \E i \in 1..Len(seq) : seq[i] = x

\* if name not in seen: normalized_names.append(name)  (the comparison is exact)
AppendNew(normalized_names, name) ==
  IF InSeq(name, normalized_names) THEN normalized_names ELSE Append(normalized_names, name)

RECURSIVE Dedupe(_)
Dedupe(names) ==
  IF names = <<>> THEN <<>>
  ELSE AppendNew(Dedupe(SubSeq(names, 1, Len(names) - 1)), names[Len(names)])

\* if "Outros" not in seen: normalized_names.insert(0, "Outros")
InsertOutros(normalized_names) ==
  IF InSeq(sOutros, normalized_names) THEN normalized_names ELSE <<sOutros>> \o normalized_names

NormalizedNames(names) == InsertOutros(Dedupe(names))

RECURSIVE Enumerate(_, _)
Enumerate(names, start) ==
  IF names = <<>> THEN <<>>
  ELSE <<<<str(start), Head(names)>>>> \o Enumerate(Tail(names), start + 1)

UpgradeCategoryRows(cfile, rows) ==
  IF rows = <<>> THEN FRESH_CATEGORIES
  ELSE IF strip(rows[1][1]) = sId THEN cfile
  ELSE <<CATEGORIES_HEADER>> \o Enumerate(NormalizedNames(LegacyNames(Tail(rows))), 1)

upgrade_categories_file(cfile) == UpgradeCategoryRows(cfile, NonBlankRows(cfile))

\* a row of categories.csv as a record, nothing when id or nome is empty
CategoryOf(id, nome) == IF id # <<>> /\ nome # <<>> THEN <<[id |-> strip(id), nome |-> strip(nome)]>> ELSE <<>>

RECURSIVE load_categories_for_upgrade(_, _)
load_categories_for_upgrade(header, rows) ==
  IF rows = <<>> THEN <<>>
  ELSE CategoryOf(Field(header, Head(rows), sId), Field(header, Head(rows), sNome))
       \o load_categories_for_upgrade(header, Tail(rows))

LargerOf(a, b) == IF a > b THEN a ELSE b

RECURSIVE MaxIntId(_)
MaxIntId(cats) == IF cats = <<>> THEN 0 ELSE LargerOf(int(Head(cats).id), MaxIntId(Tail(cats)))

\* name_to_id.get(nome): the dict keeps the last entry of a name
DictGet(cats, nome) ==
  IF \E i \in 1..Len(cats) : cats[i].nome = nome
  THEN cats[CHOOSE i \in 1..Len(cats) : cats[i].nome = nome /\ \A j \in (i + 1)..Len(cats) : cats[j].nome # nome].id
  ELSE <<>>

\* legacy expense rows with fewer than five cells are dropped
OldRows(rows) == SelectSeq(rows, LAMBDA row : Len(row) >= 5)

\* row["categoria"]
CategoriaNome(cell) == IF cell = <<>> THEN sOutros ELSE cell

\* one turn of the loop of upgrade_expenses_file, for a category that is
\* known under categoria_id or (<<>>) has to be created
UpgradeRow(acc, row, nome, categoria_id) ==
  IF categoria_id = <<>>
  THEN [new_rows |-> Append(acc.new_rows,
                            <<str(Len(acc.new_rows) + 1), row[1], row[2], row[3],
                              str(acc.next_category_id), row[5]>>),
        new_categories |-> Append(acc.new_categories, <<str(acc.next_category_id), nome>>),
        name_to_id |-> Append(acc.name_to_id, [id |-> str(acc.next_category_id), nome |-> nome]),
        next_category_id |-> acc.next_category_id + 1]
  ELSE [acc EXCEPT !.new_rows = Append(acc.new_rows,
                            <<str(Len(acc.new_rows) + 1), row[1], row[2], row[3], categoria_id, row[5]>>)]

UpgradeStep(acc, row) == UpgradeRow(acc, row, CategoriaNome(row[4]), DictGet(acc.name_to_id, CategoriaNome(row[4])))

\* the loop of upgrade_expenses_file over old_rows
RECURSIVE UpgradeLoop(_, _)
UpgradeLoop(old_rows, categories) ==
  IF old_rows = <<>>
  THEN [new_rows |-> <<>>, new_categories |-> <<>>, name_to_id |-> categories,
        next_category_id |-> MaxIntId(categories) + 1]
  ELSE UpgradeStep(UpgradeLoop(SubSeq(old_rows, 1, Len(old_rows) - 1), categories),
                   StripCells(old_rows[Len(old_rows)]))

UpgradedFiles(fs, r) == [c |-> fs.c \o r.new_categories, e |-> <<EXPENSES_HEADER>> \o r.new_rows]

UpgradeExpenseRows(fs, rows) ==
  IF rows = <<>> THEN [c |-> fs.c, e |-> FRESH_EXPENSES]
  ELSE IF strip(rows[1][1]) = sId THEN fs
  ELSE UpgradedFiles(fs, UpgradeLoop(OldRows(Tail(rows)), load_categories_for_upgrade(fs.c[1], Tail(fs.c))))

\* the two files after upgrade_expenses_file
upgrade_expenses_file(fs) == UpgradeExpenseRows(fs, NonBlankRows(fs.e))

\* a file that does not exist and a file without rows are both <<>>: the
\* two branches write the same content
ensure_storage(fs) == upgrade_expenses_file([c |-> upgrade_categories_file(fs.c), e |-> fs.e])

\* ------------------------------------------------------------ categories
RECURSIVE ParseCategories(_, _)
ParseCategories(header, rows) ==
  IF rows = <<>> THEN <<>>
  ELSE (IF strip(Field(header, Head(rows), sId)) # <<>> /\ strip(Field(header, Head(rows), sNome)) # <<>>
        THEN <<[id |-> strip(Field(header, Head(rows), sId)),
                nome |-> strip(Field(header, Head(rows), sNome))]>>
        ELSE <<>>) \o ParseCategories(header, Tail(rows))

\* the list load_categories_raw returns (ensure_storage has run)
load_categories_raw(fs) == ParseCategories(ensure_storage(fs).c[1], Tail(ensure_storage(fs).c))

RECURSIVE CategoryRows(_)
CategoryRows(categories) ==
  IF categories = <<>> THEN <<>>
  ELSE <<<<Head(categories).id, Head(categories).nome>>>> \o CategoryRows(Tail(categories))

\* the two files after save_categories(categories)
save_categories(fs, categories) ==
  [c |-> <<CATEGORIES_HEADER>> \o CategoryRows(categories), e |-> ensure_storage(fs).e]

\* sorted(..., key=lambda c: c["nome"].lower()) is stable
RECURSIVE SortedInsert(_, _)
SortedInsert(lst, x) ==
  IF lst = <<>> THEN <<x>>
  ELSE IF StrLess(lower(x.nome), lower(Head(lst).nome)) THEN <<x>> \o lst
  ELSE <<Head(lst)>> \o SortedInsert(Tail(lst), x)

RECURSIVE SortedByNome(_)
SortedByNome(lst) ==
  IF lst = <<>> THEN <<>>
  ELSE SortedInsert(SortedByNome(SubSeq(lst, 1, Len(lst) - 1)), lst[Len(lst)])

read_categories(fs) == SortedByNome(load_categories_raw(fs))

\* the two files after add_category(nome)
add_category(fs, nome) ==
  LET categories == read_categories(fs) IN
  IF strip(nome) = <<>> THEN fs
  ELSE IF \E i \in 1..Len(categories) : lower(categories[i].nome) = lower(strip(nome))
       THEN ensure_storage(fs)
  ELSE [c |-> ensure_storage(fs).c \o <<<<str(MaxIntId(categories) + 1), strip(nome)>>>>,
        e |-> ensure_storage(fs).e]

\* ------------------------------------------------------------- expenses
RECURSIVE ParseExpenses(_, _)
ParseExpenses(header, rows) ==
  IF rows = <<>> THEN <<>>
  ELSE (IF strip(Field(header, Head(rows), sId)) # <<>>
        THEN <<[id |-> strip(Field(header, Head(rows), sId)),
                data |-> strip(Field(header, Head(rows), sData)),
                descricao |-> strip(Field(header, Head(rows), sDescricao)),
                valor |-> strip(Field(header, Head(rows), sValor)),
                categoria_id |-> strip(Field(header, Head(rows), sCategoriaId)),
                anotacao |-> strip(Field(header, Head(rows), sAnotacao))]>>
        ELSE <<>>) \o ParseExpenses(header, Tail(rows))

load_expenses_raw(fs) == ParseExpenses(ensure_storage(fs).e[1], Tail(ensure_storage(fs).e))

RECURSIVE ExpenseRows(_)
ExpenseRows(expenses) ==
  IF expenses = <<>> THEN <<>>
  ELSE <<<<Head(expenses).id, Head(expenses).data, Head(expenses).descricao, Head(expenses).valor,
           Head(expenses).categoria_id, Head(expenses).anotacao>>>> \o ExpenseRows(Tail(expenses))

save_expenses(fs, expenses) ==
  [c |-> ensure_storage(fs).c, e |-> <<EXPENSES_HEADER>> \o ExpenseRows(expenses)]

\* the largest int(row["id"]) of the data rows; a row whose id is not an
\* integer is skipped
RECURSIVE MaxRowId(_, _)
MaxRowId(header, rows) ==
  IF rows = <<>> THEN 0
  ELSE LET m == MaxRowId(header, Tail(rows))
           cell == Field(header, Head(rows), sId)
       IN IF IntOk(cell) /\ int(cell) > m THEN int(cell) ELSE m

get_next_id(file) == IF file = <<>> THEN sOne ELSE str(MaxRowId(file[1], Tail(file)) + 1)

\* first category, in read_categories order, whose id is the identifier or
\* whose name equals it ignoring case; <<>> is None
resolve_category_id(fs, identifier) ==
  LET categories == read_categories(fs)
      Match(i) == \/ strip(identifier) = categories[i].id
                  \/ lower(strip(identifier)) = lower(categories[i].nome)
  IN IF strip(identifier) = <<>> THEN <<>>
     ELSE IF \E i \in 1..Len(categories) : Match(i)
     THEN categories[CHOOSE i \in 1..Len(categories) : Match(i) /\ \A j \in 1..(i - 1) : ~Match(j)].id
     ELSE <<>>

\* update_category comparing the names as they are written
update_category_exact_case(fs, category_id, novo_nome) ==
  LET categories == load_categories_raw(fs)
      found == \E i \in 1..Len(categories) : categories[i].id = category_id
      target == CHOOSE i \in 1..Len(categories) :
                  categories[i].id = category_id /\ \A j \in 1..(i - 1) : categories[j].id # category_id
      collides == \E i \in 1..Len(categories) :
                    /\ strip(novo_nome) = categories[i].nome
                    /\ categories[i].id # category_id
  IN IF strip(novo_nome) = <<>> THEN [ret |-> FALSE, fs |-> fs]
     ELSE IF ~found THEN [ret |-> FALSE, fs |-> ensure_storage(fs)]
     ELSE IF collides THEN [ret |-> FALSE, fs |-> ensure_storage(fs)]
     ELSE [ret |-> TRUE,
           fs |-> save_categories(fs, [categories EXCEPT ![target].nome = strip(novo_nome)])]

\* update_category: [ret, fs]
update_category(fs, category_id, novo_nome) ==
  LET categories == load_categories_raw(fs)
      found == \E i \in 1..Len(categories) : categories[i].id = category_id
      target == CHOOSE i \in 1..Len(categories) :
                  categories[i].id = category_id /\ \A j \in 1..(i - 1) : categories[j].id # category_id
      collides == \E i \in 1..Len(categories) :
                    /\ lower(strip(novo_nome)) = lower(categories[i].nome)
                    /\ categories[i].id # category_id
  IN IF strip(novo_nome) = <<>> THEN [ret |-> FALSE, fs |-> fs]
     ELSE IF ~found THEN [ret |-> FALSE, fs |-> ensure_storage(fs)]
     ELSE IF collides THEN [ret |-> FALSE, fs |-> ensure_storage(fs)]
     ELSE [ret |-> TRUE,
           fs |-> save_categories(fs, [categories EXCEPT ![target].nome = strip(novo_nome)])]

\* Reassigned giving new_id to every expense
RECURSIVE Reassigned_every_expense(_, _, _)
Reassigned_every_expense(expenses, old_id, new_id) ==
  IF expenses = <<>> THEN <<>>
  ELSE <<[Head(expenses) EXCEPT !.categoria_id = new_id]>>
       \o Reassigned_every_expense(Tail(expenses), old_id, new_id)

RECURSIVE Reassigned(_, _, _)
Reassigned(expenses, old_id, new_id) ==
  IF expenses = <<>> THEN <<>>
  ELSE <<IF Head(expenses).categoria_id = old_id
         THEN [Head(expenses) EXCEPT !.categoria_id = new_id]
         ELSE Head(expenses)>> \o Reassigned(Tail(expenses), old_id, new_id)

\* reassign_expenses_category that never saves
reassign_expenses_category_skipped(fs, old_id, new_id) == ensure_storage(fs)

\* the two files after reassign_expenses_category(old_id, new_id)
reassign_expenses_category(fs, old_id, new_id) ==
  LET expenses == load_expenses_raw(fs) IN
  IF \E i \in 1..Len(expenses) : expenses[i].categoria_id = old_id
  THEN save_expenses(fs, Reassigned(expenses, old_id, new_id))
  ELSE ensure_storage(fs)

\* filtered = [category for category in categories if category["id"] != category_id]
FilteredCategories(fs, category_id) ==
  SelectSeq(load_categories_raw(fs), LAMBDA category : category.id # category_id)

\* update_expense: [ret, fs]
update_expense(fs, expense_id, data, descricao, valor, categoria_id, anotacao) ==
  LET expenses == load_expenses_raw(fs)
      found == \E i \in 1..Len(expenses) : expenses[i].id = expense_id
      k == CHOOSE i \in 1..Len(expenses) :
             expenses[i].id = expense_id /\ \A j \in 1..(i - 1) : expenses[j].id # expense_id
  IN IF ~found THEN [ret |-> FALSE, fs |-> ensure_storage(fs)]
     ELSE [ret |-> TRUE,
           fs |-> save_expenses(fs, [expenses EXCEPT ![k] =
                    [id |-> expenses[k].id, data |-> data, descricao |-> descricao,
                     valor |-> format_2f(valor), categoria_id |-> categoria_id,
                     anotacao |-> anotacao]])]

\* delete_expense: [ret, fs]
delete_expense(fs, expense_id) ==
  LET expenses == load_expenses_raw(fs)
      filtered == SelectSeq(expenses, LAMBDA expense : expense.id # expense_id)
  IN IF Len(filtered) = Len(expenses) THEN [ret |-> FALSE, fs |-> ensure_storage(fs)]
     ELSE [ret |-> TRUE, fs |-> save_expenses(fs, filtered)]

\* the two files after write_expense
write_expense(fs, data, descricao, valor, categoria_id, anotacao) ==
  [c |-> ensure_storage(fs).c,
   e |-> ensure_storage(fs).e \o
         <<<<get_next_id(ensure_storage(fs).e), data, descricao, format_2f(valor), categoria_id, anotacao>>>>]

\* ---------------------------------------------------------------- state
VARIABLES
  categories_file,   \* rows of data/categories.csv, <<>> when it does not exist
  expenses_file,     \* rows of data/expenses.csv, <<>> when it does not exist
  pc,                \* "start", "idle", "delete_category_saved", "redirect"
  req,               \* the request being handled or just handled
  flash,             \* <<message, category>> flashed by the handler
  issued,            \* largest id ever written, per file (history)
  before             \* the files and issued when req arrived (history)

vars == <<categories_file, expenses_file, pc, req, flash, issued, before>>

files == [c |-> categories_file, e |-> expenses_file]

SetFiles(fs) == categories_file' = fs.c /\ expenses_file' = fs.e

\* ---------------------------------------------------------------- inputs
dIso == <<"2", "0", "2", "4", "-", "0", "1", "-", "0", "5">>
dShort == <<"2", "0", "2", "4", "-", "1", "-", "5">>
dNoSuchDay == <<"2", "0", "2", "4", "-", "0", "2", "-", "3", "0">>
dSlashes == <<"0", "5", "/", "0", "1", "/", "2", "0", "2", "4">>
vComma == <<"1", ",", "5">>
vWord == <<"x">>
vNan == <<"n", "a", "n">>
vInf == <<"-", "I", "n", "f">>
sX == <<"x">>
nA == <<"a">>
nUpperA == <<" ", "A">>
nTwo == <<"2">>

EmptyForm == [data |-> <<>>, descricao |-> <<>>, valor |-> <<>>, categoria_id |-> <<>>,
              categoria |-> <<>>, anotacao |-> <<>>]

GoodForm == [data |-> dShort, descricao |-> sX, valor |-> vComma, categoria_id |-> sOne,
             categoria |-> <<>>, anotacao |-> <<>>]

CategoryIdInputs == {str(i) : i \in 1..MaxCatId}

\* the category of a form: by id, by name, by the fallback field, unknown
CategoryForms ==
  {[GoodForm EXCEPT !.categoria_id = c] : c \in CategoryIdInputs \cup {<<"9">>, <<" ", "1">>}}
  \cup {[GoodForm EXCEPT !.categoria_id = <<>>, !.categoria = n] : n \in {nUpperA, sOutrosLower, sX}}

\* one field missing, malformed, or not parsable
BadForms ==
  {[GoodForm EXCEPT !.data = d] : d \in {<<>>, dNoSuchDay, dSlashes}}
  \cup {[GoodForm EXCEPT !.descricao = d] : d \in {<<>>, <<" ">>}}
  \cup {[GoodForm EXCEPT !.valor = v] : v \in {<<>>, vWord}}
  \cup {[GoodForm EXCEPT !.categoria_id = <<>>]}

Forms == CategoryForms \cup BadForms \cup {[GoodForm EXCEPT !.data = dIso]}

\* amounts that float() takes without being decimal numbers
WordAmountForms == {[GoodForm EXCEPT !.valor = v] : v \in {vNan, vInf}}

NameInputs == {<<>>, nA, nUpperA, nTwo}

ExpenseIdInputs == {str(i) : i \in 1..MaxExpId}

NoReq == [route |-> "none", id |-> <<>>, nome |-> <<>>, form |-> EmptyForm]

Request(route, id, nome, form) == [route |-> route, id |-> id, nome |-> nome, form |-> form]

NoBefore == [c |-> <<>>, e |-> <<>>, issued |-> [category |-> 0, expense |-> 0]]

\* ------------------------------------------------------------- messages
NoFlash == <<"", "">>
MsgPreencha == <<"Preencha data, descricao, valor e categoria.", "error">>
MsgDataInvalida == <<"Data invalida. Use o formato AAAA-MM-DD.", "error">>
MsgValorInvalido == <<"Valor invalido.", "error">>
MsgCategoriaNaoEncontrada == <<"Categoria informada nao foi encontrada.", "error">>
MsgRegistrado == <<"Lancamento registrado com sucesso!", "success">>
MsgInformeNome == <<"Informe um nome de categoria.", "error">>
MsgCategoriaCriada == <<"Categoria criada!", "success">>
MsgCategoriaAtualizada == <<"Categoria atualizada com sucesso!", "success">>
MsgCategoriaNaoAtualizada == <<"Nao foi possivel atualizar a categoria.", "error">>
MsgCategoriaRemovida == <<"Categoria removida. Lancamentos associados foram movidos para 'Outros'.", "success">>
MsgCategoriaNaoRemovida == <<"Nao foi possivel remover a categoria.", "error">>
MsgLancamentoAtualizado == <<"Lancamento atualizado com sucesso!", "success">>
MsgLancamentoNaoAtualizado == <<"Nao foi possivel atualizar o lancamento.", "error">>
MsgLancamentoRemovido == <<"Lancamento removido.", "success">>
MsgLancamentoNaoRemovido == <<"Nao foi possivel remover o lancamento.", "error">>

\* --------------------------------------------------------------- actions
LargestId(file) == IF file = <<>> THEN 0 ELSE MaxRowId(file[1], Tail(file))

\* the handler of request r starts
Arrive(r) ==
  /\ pc = "idle"
  /\ req' = r
  /\ before' = [c |-> categories_file, e |-> expenses_file, issued |-> issued]

\* the handler leaves the files as fs and redirects with message m
Respond(fs, m) ==
  /\ SetFiles(fs)
  /\ flash' = m
  /\ pc' = "redirect"
  /\ issued' = [category |-> LargerOf(issued.category, LargestId(fs.c)),
                expense |-> LargerOf(issued.expense, LargestId(fs.e))]

\* if update_category(...): flash(success) else: flash(error), and the like
RespondReturn(r, success, error) == IF r.ret THEN Respond(r.fs, success) ELSE Respond(r.fs, error)

Started(fs) ==
  /\ SetFiles(fs)
  /\ pc' = "idle"
  /\ issued' = [category |-> LargestId(fs.c), expense |-> LargestId(fs.e)]

\* if __name__ == "__main__": ensure_storage()
main ==
  /\ pc = "start"
  /\ Started(ensure_storage(files))
  /\ UNCHANGED <<req, flash, before>>

\* request.form.get("categoria_id") or request.form.get("categoria") or ""
CategoriaInput(f) == strip(IF f.categoria_id # <<>> THEN f.categoria_id ELSE f.categoria)

MissingField(f) ==
  \/ strip(f.data) = <<>>
  \/ strip(f.descricao) = <<>>
  \/ strip(f.valor) = <<>>
  \/ CategoriaInput(f) = <<>>

\* adicionar from resolve_category_id on
adicionar_resolved(f, categoria_id) ==
  IF categoria_id = <<>> THEN Respond(ensure_storage(files), MsgCategoriaNaoEncontrada)
  ELSE Respond(write_expense(files, strftime(strptime(strip(f.data))), strip(f.descricao),
                             float(replace_comma(strip(f.valor))), categoria_id, strip(f.anotacao)),
               MsgRegistrado)

\* POST /adicionar; expense ids are capped at MaxExpId
adicionar(f) ==
  /\ LargestId(expenses_file) < MaxExpId
  /\ Arrive(Request("adicionar", <<>>, <<>>, f))
  /\ IF MissingField(f) THEN Respond(files, MsgPreencha)
     ELSE IF ~StrptimeOk(strip(f.data)) THEN Respond(files, MsgDataInvalida)
     ELSE IF ~FloatOk(replace_comma(strip(f.valor))) THEN Respond(files, MsgValorInvalido)
     ELSE adicionar_resolved(f, resolve_category_id(files, CategoriaInput(f)))

\* POST /categorias; category ids are capped at MaxCatId
categorias(nome) ==
  /\ LargestId(categories_file) < MaxCatId
  /\ Arrive(Request("categorias", <<>>, nome, EmptyForm))
  /\ IF strip(nome) = <<>> THEN Respond(files, MsgInformeNome)
     ELSE Respond(add_category(files, nome), MsgCategoriaCriada)

renomear_categoria(category_id, novo_nome) ==
  /\ Arrive(Request("renomear_categoria", category_id, novo_nome, EmptyForm))
  /\ RespondReturn(update_category(files, category_id, novo_nome),
                   MsgCategoriaAtualizada, MsgCategoriaNaoAtualizada)

\* delete_category from len(filtered) == len(categories) to the return of
\* save_categories(filtered)
delete_category_save(categories, filtered) ==
  IF Len(filtered) = Len(categories) THEN Respond(ensure_storage(files), MsgCategoriaNaoRemovida)
  ELSE /\ SetFiles(save_categories(files, filtered))
       /\ pc' = "delete_category_saved"
       /\ UNCHANGED <<flash, issued>>

\* excluir_categoria without the test for the default category
excluir_categoria_any_id(category_id) ==
  /\ Arrive(Request("excluir_categoria", category_id, <<>>, EmptyForm))
  /\ delete_category_save(load_categories_raw(files), FilteredCategories(files, category_id))

\* excluir_categoria up to the return of save_categories(filtered) in
\* delete_category, or to the end when delete_category returns False
excluir_categoria(category_id) ==
  /\ Arrive(Request("excluir_categoria", category_id, <<>>, EmptyForm))
  /\ IF category_id = sOne THEN Respond(files, MsgCategoriaNaoRemovida)
     ELSE delete_category_save(load_categories_raw(files), FilteredCategories(files, category_id))

\* the rest of delete_category and of excluir_categoria
delete_category_reassign ==
  /\ pc = "delete_category_saved"
  /\ Respond(reassign_expenses_category(files, req.id, sOne), MsgCategoriaRemovida)
  /\ UNCHANGED <<req, before>>

\* editar_lancamento from resolve_category_id on
editar_lancamento_resolved(expense_id, f, categoria_id) ==
  IF categoria_id = <<>> THEN Respond(ensure_storage(files), MsgCategoriaNaoEncontrada)
  ELSE RespondReturn(update_expense(files, expense_id, strftime(strptime(strip(f.data))),
                                    strip(f.descricao), float(replace_comma(strip(f.valor))),
                                    categoria_id, strip(f.anotacao)),
                     MsgLancamentoAtualizado, MsgLancamentoNaoAtualizado)

editar_lancamento(expense_id, f) ==
  /\ Arrive(Request("editar_lancamento", expense_id, <<>>, f))
  /\ IF MissingField(f) THEN Respond(files, MsgPreencha)
     ELSE IF ~StrptimeOk(strip(f.data)) THEN Respond(files, MsgDataInvalida)
     ELSE IF ~FloatOk(replace_comma(strip(f.valor))) THEN Respond(files, MsgValorInvalido)
     ELSE editar_lancamento_resolved(expense_id, f, resolve_category_id(files, CategoriaInput(f)))

excluir_lancamento(expense_id) ==
  /\ Arrive(Request("excluir_lancamento", expense_id, <<>>, EmptyForm))
  /\ RespondReturn(delete_expense(files, expense_id), MsgLancamentoRemovido, MsgLancamentoNaoRemovido)

\* the GET the redirect leads to (index or categorias): it reads both
\* files and renders the page, which shows and drops the flashed message
redirect_target ==
  /\ pc = "redirect"
  /\ SetFiles(ensure_storage(files))
  /\ flash' = NoFlash
  /\ req' = NoReq
  /\ before' = NoBefore
  /\ pc' = "idle"
  /\ UNCHANGED issued

Init ==
  /\ categories_file = <<>>
  /\ expenses_file = <<>>
  /\ pc = "start"
  /\ req = NoReq
  /\ flash = NoFlash
  /\ issued = [category |-> 0, expense |-> 0]
  /\ before = NoBefore

NextWith(forms) ==
  \/ main
  \/ \E f \in forms : adicionar(f)
  \/ \E nome \in NameInputs : categorias(nome)
  \/ \E category_id \in CategoryIdInputs, novo_nome \in NameInputs : renomear_categoria(category_id, novo_nome)
  \/ \E category_id \in CategoryIdInputs : excluir_categoria(category_id)
  \/ delete_category_reassign
  \/ \E expense_id \in ExpenseIdInputs, f \in forms : editar_lancamento(expense_id, f)
  \/ \E expense_id \in ExpenseIdInputs : excluir_lancamento(expense_id)
  \/ redirect_target

Next == NextWith(Forms)

Spec == Init /\ [][Next]_vars

\* the same requests, and amounts written as words
NextAmounts == NextWith(Forms \cup WordAmountForms)

SpecAmounts == Init /\ [][NextAmounts]_vars

\* ---------------------------------------- start on files of the old schema
sCategoria == <<"c", "a", "t", "e", "g", "o", "r", "i", "a">>
vStored == <<"1", ".", "5", "0">>

LEGACY_CATEGORIES_HEADER == <<sNome>>

LEGACY_EXPENSES_HEADER == <<sData, sDescricao, sValor, sCategoria, sAnotacao>>

LegacyNameInputs == {sOutros, nA, nUpperA, sOutrosLower}

RECURSIVE NameRows(_)
NameRows(names) == IF Len(names) = 0 THEN <<>> ELSE <<<<Head(names)>>>> \o NameRows(Tail(names))

LegacyCategoryFiles ==
  UNION {{<<LEGACY_CATEGORIES_HEADER>> \o NameRows(names) : names \in [1..k -> LegacyNameInputs]} :
           k \in 0..MaxLegacyRows}

LegacyExpenseFiles ==
  {<<>>, FRESH_EXPENSES, <<LEGACY_EXPENSES_HEADER>>}
  \cup {<<LEGACY_EXPENSES_HEADER, <<dIso, sX, vStored, n, <<>>>>>> : n \in {<<>>, nA, sOutros}}

InitLegacy ==
  /\ categories_file \in LegacyCategoryFiles
  /\ expenses_file \in LegacyExpenseFiles
  /\ pc = "start"
  /\ req = NoReq
  /\ flash = NoFlash
  /\ issued = [category |-> 0, expense |-> 0]
  /\ before = NoBefore

NextMigrate == main

SpecMigrate == InitLegacy /\ [][NextMigrate]_vars

\* ------------------------------------------------------- what is persisted
Categories(file) == IF file = <<>> THEN <<>> ELSE ParseCategories(file[1], Tail(file))

Expenses(file) == IF file = <<>> THEN <<>> ELSE ParseExpenses(file[1], Tail(file))

IdsOf(records) == {records[i].id : i \in 1..Len(records)}

CategoryIds(file) == IdsOf(Categories(file))

Responded(route) == pc = "redirect" /\ req.route = route

FilesAsBefore == categories_file = before.c /\ expenses_file = before.e

InCategory(expenses, ids) == \E i \in 1..Len(expenses) : expenses[i].categoria_id \in ids

\* C1: once storage exists a category with id "1" exists, and a request to
\* delete category "1" is refused (delete_category returns False) with both
\* files left as they were.
C1_DefaultCategoryKept ==
  /\ pc # "start" => sOne \in CategoryIds(categories_file)
  /\ (Responded("excluir_categoria") /\ req.id = sOne) =>
       (flash = MsgCategoriaNaoRemovida /\ FilesAsBefore)

C1_Witness ==
  /\ Responded("excluir_categoria")
  /\ req.id = sOne
  /\ Len(Categories(before.c)) >= 2
  /\ InCategory(Expenses(before.e), {sOne})

\* C2: deleting an existing category c other than "1" removes exactly c from
\* the category list, moves every expense of c to "1" and changes nothing
\* else in any expense.
OnlyRemoved(old, new, c) ==
  /\ Len(new) = Len(old) - 1
  /\ \E k \in 1..Len(old) : old[k].id = c /\ new = SubSeq(old, 1, k - 1) \o SubSeq(old, k + 1, Len(old))

OnlyMoved(oe, ne, c) ==
  /\ Len(ne) = Len(oe)
  /\ \A i \in 1..Len(oe) :
       ne[i] = IF oe[i].categoria_id = c THEN [oe[i] EXCEPT !.categoria_id = sOne] ELSE oe[i]

C2_DeleteCategoryReassigns ==
  (Responded("excluir_categoria") /\ req.id # sOne /\ req.id \in CategoryIds(before.c)) =>
    /\ flash = MsgCategoriaRemovida
    /\ OnlyRemoved(Categories(before.c), Categories(categories_file), req.id)
    /\ OnlyMoved(Expenses(before.e), Expenses(expenses_file), req.id)

C2_Witness ==
  /\ Responded("excluir_categoria")
  /\ req.id # sOne
  /\ req.id \in CategoryIds(before.c)
  /\ InCategory(Expenses(before.e), {req.id})
  /\ InCategory(Expenses(before.e), CategoryIds(before.c) \ {req.id, sOne})

\* C3: while delete_category(c) runs, the categories file never lacks c
\* while an expense still has categoria_id c (expenses are rewritten first).
C3_ReassignBeforeRemoval ==
  pc = "delete_category_saved" =>
    ~(req.id \notin CategoryIds(categories_file) /\ InCategory(Expenses(expenses_file), {req.id}))

\* C4: no two categories have names equal ignoring case, and renaming a
\* category to a name that another category has, ignoring case, is refused
\* (update_category returns False) with the categories file left as it was.
NamesDiffer(categories) ==
  \A i, j \in 1..Len(categories) : i # j => lower(categories[i].nome) # lower(categories[j].nome)

\* another category than category_id has the name, ignoring case
NameTaken(categories, category_id, nome) ==
  \E i \in 1..Len(categories) :
    categories[i].id # category_id /\ lower(categories[i].nome) = lower(nome)

C4_NamesUniqueIgnoringCase ==
  /\ NamesDiffer(Categories(categories_file))
  /\ (Responded("renomear_categoria") /\ NameTaken(Categories(before.c), req.id, strip(req.nome))) =>
       (flash = MsgCategoriaNaoAtualizada /\ categories_file = before.c)

\* the name is taken in another case than the one asked for
TakenInOtherCase(categories, category_id, nome) ==
  \E i \in 1..Len(categories) :
    /\ categories[i].id # category_id
    /\ lower(categories[i].nome) = lower(nome)
    /\ categories[i].nome # nome

C4_Witness ==
  /\ Responded("renomear_categoria")
  /\ req.id \in CategoryIds(before.c)
  /\ TakenInOtherCase(Categories(before.c), req.id, strip(req.nome))

\* C5: a create-expense or edit-expense request with a missing required
\* field, a malformed date, a non-numeric amount or a category that resolves
\* to nothing ends with an error message and changes neither file.
IsFormRoute == req.route \in {"adicionar", "editar_lancamento"}

FormCategory(f) == IF f.categoria_id # <<>> THEN f.categoria_id ELSE f.categoria

MissingRequired(f) ==
  strip(f.data) = <<>> \/ strip(f.descricao) = <<>> \/ strip(f.valor) = <<>> \/ strip(FormCategory(f)) = <<>>

MalformedDate(f) == ~StrptimeOk(strip(f.data))

\* a number is an optional sign and decimal digits with at most one "," or "."
NonNumericAmount(f) == ~IsDecimal(FloatBody(replace_comma(strip(f.valor))))

UnresolvableCategory(f, categories) ==
  \A i \in 1..Len(categories) :
    /\ categories[i].id # strip(FormCategory(f))
    /\ lower(categories[i].nome) # lower(strip(FormCategory(f)))

C5_InvalidFormRejected ==
  (/\ pc = "redirect"
   /\ IsFormRoute
   /\ \/ MissingRequired(req.form)
      \/ MalformedDate(req.form)
      \/ NonNumericAmount(req.form)
      \/ UnresolvableCategory(req.form, Categories(before.c))) =>
    (flash[2] = "error" /\ FilesAsBefore)

\* C6: a newly created category or expense gets an id greater than every id
\* ever given before to a record of its kind, deleted ones included.
NewIdAbove(old, new, largest) == Len(new) > Len(old) => int(new[Len(new)].id) > largest

C6_IdsNeverReused ==
  /\ Responded("categorias") =>
       NewIdAbove(Categories(before.c), Categories(categories_file), before.issued.category)
  /\ Responded("adicionar") =>
       NewIdAbove(Expenses(before.e), Expenses(expenses_file), before.issued.expense)

\* C7: creating a category under a non-empty name that an existing category
\* has, ignoring case, leaves the categories file as it was and ends with an
\* error message.
C7_DuplicateCreateRejected ==
  (/\ Responded("categorias")
   /\ strip(req.nome) # <<>>
   /\ NameTaken(Categories(before.c), <<>>, strip(req.nome))) =>
    (categories_file = before.c /\ flash[2] = "error")

\* C8: after ensure_storage has migrated a legacy categories file, the file
\* has the current header and its category "1" is named "Outros".
HasCategory(categories, id, nome) ==
  \E i \in 1..Len(categories) : categories[i].id = id /\ categories[i].nome = nome

C8_MigratedDefaultIsOutros ==
  pc = "idle" =>
    /\ categories_file[1] = CATEGORIES_HEADER
    /\ HasCategory(Categories(categories_file), sOne, sOutros)

\* C9: after every completed request every stored expense's categoria_id is
\* the id of a category in the categories file.
NoOrphan(expenses, ids) == \A i \in 1..Len(expenses) : expenses[i].categoria_id \in ids

C9_NoOrphanAfterRequest ==
  pc \in {"idle", "redirect"} => NoOrphan(Expenses(expenses_file), CategoryIds(categories_file))

C9_Witness ==
  /\ Responded("excluir_categoria")
  /\ flash = MsgCategoriaRemovida
  /\ InCategory(Expenses(before.e), {req.id})

\* C10: a create-expense or edit-expense request whose category identifier is
\* exactly the id of an existing category resolves to that id and stores the
\* expense with it.
StoredWith(expenses, categoria_id) ==
  IF req.route = "adicionar"
  THEN expenses[Len(expenses)].categoria_id = categoria_id
  ELSE \A i \in 1..Len(expenses) : expenses[i].id = req.id => expenses[i].categoria_id = categoria_id

C10_IdResolvesToItself ==
  (/\ pc = "redirect"
   /\ IsFormRoute
   /\ req.form.categoria_id \in CategoryIds(before.c)
   /\ flash \in {MsgRegistrado, MsgLancamentoAtualizado}) =>
    /\ resolve_category_id([c |-> before.c, e |-> before.e], req.form.categoria_id) = req.form.categoria_id
    /\ StoredWith(Expenses(expenses_file), req.form.categoria_id)

====
